---- MODULE Spec2Model ----
(***************************************************************************)
(* A model of the Foodgram backend (src/backend): the toggle relations     *)
(* (favorite, shopping cart, follow), the recipe rows they point to and    *)
(* the short link of a recipe, as the view sets of api/v1/views.py drive   *)
(* them.                                                                   *)
(*                                                                         *)
(* The views import Favorite, Follow and ShortLinkRecipe from              *)
(* recipes.models, which src/backend/recipes/models.py does not define.    *)
(* The repository holds two namings of the same entities                   *)
(* (Favorite/FavouriteRecipe, Follow/Subscription): the model reads the    *)
(* view's Favorite table as FavouriteRecipe and its Follow table as        *)
(* Subscription, with the constraints those models declare.                *)
(* ShortLinkRecipe and the code that fills it are in no source file; they  *)
(* are modelled from the specification (section 4.2).                      *)
(*                                                                         *)
(* The model also holds the writes of a recipe with its ingredient and tag *)
(* links (CreateRecipeSerializer, which the view names RecipeSerializer),  *)
(* the list of recipes with its filters, the download of the shopping list *)
(* and the user-scoped actions of UserViewSet. IsAuthorOrReadOnly          *)
(* (api/v1/permissions.py) and the authentication classes (settings.py)    *)
(* are in no source file; they are modelled from the specification.        *)
(***************************************************************************)
EXTENDS Integers, FiniteSets, Sequences, TLC

\* ------------------------------------------------------------------ bounds
NUsers == 2
NRecipes == 3
MaxRows == 2
NWorkers == 2

\* The token space is one smaller than the space of recipe keys, so that a
\* creation can meet a saturated token space.
NTokens == NRecipes - 1

\* ------------------------------------------------------- program constants
HTTP_200_OK == 200
HTTP_201_CREATED == 201
HTTP_204_NO_CONTENT == 204
HTTP_400_BAD_REQUEST == 400
HTTP_401_UNAUTHORIZED == 401
HTTP_403_FORBIDDEN == 403
HTTP_404_NOT_FOUND == 404
\* An exception no handler catches (IntegrityError) is answered 500.
HTTP_500_INTERNAL_SERVER_ERROR == 500
\* The admin site answers a saved form with a redirect.
HTTP_302_FOUND == 302

\* request.user of a request without credentials (user.is_anonymous).
Anonymous == 0
\* "No row": the value of a foreign key or token that is not stored.
None == 0

Users == 1..NUsers
\* Primary keys a request may name; NUsers + 1 is the key of no user.
UserIds == 1..(NUsers + 1)
RecipeIds == 1..NRecipes
Tokens == 1..NTokens
Methods == {"POST", "DELETE"}

\* The rows of the Ingredient table (loaded once, read-only through the API):
\* the names in alphabetical order.
IngredientNames == <<"flour", "salt">>
Ingredients == {IngredientNames[k] : k \in DOMAIN IngredientNames}
\* The rows of the Tag table: the slugs.
Tags == {"dinner", "lunch"}
\* The amounts that requests give to an ingredient.
Amounts == {1, 2}

\* recipes.config.MIN_AMOUNT_SUM, the limit of RecipeIngredient.amount's
\* MinValueValidator.
MIN_AMOUNT_SUM == 1

VARIABLES
    recipes,        \* Recipe rows: recipes[id] is the author, None when no row
    recipe_seq,     \* the last primary key the Recipe table handed out
    short_link,     \* ShortLinkRecipe rows: short_link[id] is the token, None when no row
    favorite,       \* Favorite rows: favorite[<<user, recipe>>] is the number of rows
    shopping_list,  \* ShoppingList rows: shopping_list[<<user, recipe>>]
    follow,         \* Follow rows: follow[<<follower, author>>]
    recipe_ingredients, \* RecipeIngredient rows: <<recipe, ingredient, amount>>
    recipe_tags,    \* RecipeTag rows: <<recipe, tag>>
    alloc,          \* the recipe whose creation request is in the short-link loop, None when none
    checked,        \* add requests that passed their exists() check and have not written yet
    answered,       \* the answers given to the requests of `checked`
    issued,         \* history: the first and the latest token get-link returned for a recipe
    response        \* the answer to the last request

\* The link rows of the recipes.
links == <<recipe_ingredients, recipe_tags>>
db == <<recipes, recipe_seq, short_link, favorite, shopping_list, follow, links>>
vars == <<recipes, recipe_seq, short_link, favorite, shopping_list, follow,
          recipe_ingredients, recipe_tags, alloc, checked, answered, issued, response>>

\* The status of a request that the IsAuthenticated permission denies: the
\* authentication scheme of the settings names a WWW-Authenticate header, so
\* the framework answers 401.
NotAuthenticated == HTTP_401_UNAUTHORIZED

\* ----------------------------------------------------------------- helpers
RecipePairs == Users \X RecipeIds
UserPairs == Users \X Users

EmptyTable(pairs) == [p \in pairs |-> 0]

\* The rows of the pairs `keys` beyond the first row of each.
RECURSIVE Surplus(_, _)
Surplus(tbl, keys) ==
    IF keys = {} THEN 0
    ELSE LET k == CHOOSE x \in keys : TRUE
         IN  (tbl[k] - 1) + Surplus(tbl, keys \ {k})

\* The number of rows of a table.
Count(tbl) ==
    Cardinality({p \in DOMAIN tbl : tbl[p] > 0}) + Surplus(tbl, {p \in DOMAIN tbl : tbl[p] > 1})

\* The model stores at most MaxRows toggle rows.
RoomForRow == Count(favorite) + Count(shopping_list) + Count(follow) < MaxRows

\* Model.objects.filter(a=x, b=y).exists()
Exists(tbl, x, y) == tbl[<<x, y>>] > 0

\* The table after Model.objects.create(a=x, b=y) stored its row.
Inserted(tbl, x, y) == [tbl EXCEPT ![<<x, y>>] = @ + 1]

\* A delete() whose filter names b only: the rows of every a go.
DeletedOfAll(tbl, x, y) == [p \in DOMAIN tbl |-> IF p[2] = y THEN 0 ELSE tbl[p]]

\* The table after Model.objects.filter(a=x, b=y).delete(): every matching row goes.
Deleted(tbl, x, y) == [tbl EXCEPT ![<<x, y>>] = 0]

\* A foreign key whose rows stay when the recipe is deleted.
Retained(tbl, pk) == tbl

\* on_delete=CASCADE: the table without the rows that refer to recipe pk.
Cascaded(tbl, pk) == [p \in DOMAIN tbl |-> IF p[2] = pk THEN 0 ELSE tbl[p]]

\* on_delete=CASCADE of the link rows, whose first field is the recipe.
CascadedRows(rows, pk) == {row \in rows : row[1] # pk}

Respond(action, method, status, body) ==
    response' = [action |-> action, method |-> method, status |-> status, body |-> body]

\* No answer is on its way to a client.
NoResponse == [action |-> "none", method |-> "none", status |-> 0, body |-> None]

\* One request is processed at a time: the answer to the last request was sent,
\* no creation is inside its short-link loop and no add request is between its
\* check and its write.
Idle == alloc = None /\ checked = {} /\ response = NoResponse

\* The answer to the last request leaves the server, which takes the next request.
ResponseSent ==
    /\ response # NoResponse
    /\ alloc = None
    /\ checked = {}
    /\ response' = NoResponse
    /\ UNCHANGED <<db, alloc, checked, answered, issued>>

\* ------------------------------------------------- storage-layer constraints
\* A FavouriteRecipe table declared without its constraint.
favourite_recipe_unconstrained(tbl, user, recipe) == TRUE

\* UniqueConstraint(fields=('user', 'recipe'), name='unique_favourite_recipe'):
\* whether the table accepts one more row for the pair.
unique_favourite_recipe(tbl, user, recipe) == tbl[<<user, recipe>>] = 0

\* A ShoppingList table declared without its constraint.
shopping_list_unconstrained(tbl, user, recipe) == TRUE

\* UniqueConstraint(fields=('user', 'recipe'), name='unique_shopping_list_user')
unique_shopping_list_user(tbl, user, recipe) == tbl[<<user, recipe>>] = 0

\* UniqueConstraint(fields=('user', 'following'), name='unique_user_following')
unique_user_following(tbl, user, following) == tbl[<<user, following>>] = 0

\* CheckConstraint(check=~Q(user=F('following')), name='..._prevent_self_follow')
prevent_self_follow(user, following) == user # following

\* -------------------------------------------------------------- the states
\* The database after the migrations: no rows.
Init ==
    /\ recipes = [r \in RecipeIds |-> None]
    /\ recipe_seq = 0
    /\ short_link = [r \in RecipeIds |-> None]
    /\ favorite = EmptyTable(RecipePairs)
    /\ shopping_list = EmptyTable(RecipePairs)
    /\ follow = EmptyTable(UserPairs)
    /\ recipe_ingredients = {}
    /\ recipe_tags = {}
    /\ alloc = None
    /\ checked = {}
    /\ answered = {}
    /\ issued = [r \in RecipeIds |-> <<>>]
    /\ response = NoResponse

\* The author of the recipe with key r in the populated database.
SeedAuthor(r) == ((r - 1) % NUsers) + 1

\* request.data: a field that the request does not carry has has_... = FALSE.
Data(has_ingredients, ingredients, has_tags, tags) ==
    [has_ingredients |-> has_ingredients, ingredients |-> ingredients,
     has_tags |-> has_tags, tags |-> tags, has_amount |-> FALSE, amount |-> 0,
     has_author |-> FALSE, author |-> None]

\* The request with an 'amount' key beside its lists, the key that
\* RecipeViewSet.update looks for in request.data.
WithAmount(data, amount) == [data EXCEPT !.has_amount = TRUE, !.amount = amount]

\* The request with an 'author' key beside its lists.
WithAuthor(data, author) == [data EXCEPT !.has_author = TRUE, !.author = author]

\* The request that created the recipe with key r in the populated database:
\* the recipes share flour.
SeedData(r) ==
    IF r % 2 = 1
    THEN Data(TRUE, <<[id |-> "flour", amount |-> 1], [id |-> "salt", amount |-> 2]>>,
              TRUE, <<"lunch">>)
    ELSE Data(TRUE, <<[id |-> "flour", amount |-> 2]>>, TRUE, <<"dinner", "lunch">>)

\* The RecipeIngredient rows that add_ingredients stores for a recipe.
IngredientRows(recipe, ingredients) ==
    {<<recipe, ingredients[k].id, ingredients[k].amount>> : k \in DOMAIN ingredients}

\* The RecipeTag rows that recipe.tags.set(tags) stores for a recipe.
TagRows(recipe, tags) == {<<recipe, tags[k]>> : k \in DOMAIN tags}

\* The database after NRecipes - 1 recipes were created, the users taking turns
\* and recipe r getting token r: the start of the toggle requests. The key
\* NRecipes is the key of no recipe.
Populated ==
    /\ recipes = [r \in RecipeIds |-> IF r < NRecipes THEN SeedAuthor(r) ELSE None]
    /\ recipe_seq = NRecipes - 1
    /\ short_link = [r \in RecipeIds |-> IF r < NRecipes THEN r ELSE None]
    /\ favorite = EmptyTable(RecipePairs)
    /\ shopping_list = EmptyTable(RecipePairs)
    /\ follow = EmptyTable(UserPairs)
    /\ recipe_ingredients =
           UNION {IngredientRows(r, SeedData(r).ingredients) : r \in 1..(NRecipes - 1)}
    /\ recipe_tags = UNION {TagRows(r, SeedData(r).tags) : r \in 1..(NRecipes - 1)}
    /\ alloc = None
    /\ checked = {}
    /\ answered = {}
    /\ issued = [r \in RecipeIds |-> <<>>]
    /\ response = NoResponse

\* ------------------------------------------------------------ toggle views
\* Each toggle view first reads (the lookups and the exists() query) and then
\* writes (create() or delete()). X_precheck is the status the view answers
\* without writing, None when it goes on to write; X_written is the table and
\* the status after the write.

\* The favorite view without the exists() query of its POST branch.
favorite_precheck_add_unchecked(user, pk, method) ==
    IF user = Anonymous THEN HTTP_401_UNAUTHORIZED
    ELSE IF recipes[pk] = None THEN HTTP_404_NOT_FOUND
    ELSE IF method = "DELETE" /\ ~Exists(favorite, user, pk) THEN HTTP_400_BAD_REQUEST
    ELSE None

\* The favorite view without get_object_or_404.
favorite_precheck_recipe_unchecked(user, pk, method) ==
    IF user = Anonymous THEN HTTP_401_UNAUTHORIZED
    ELSE IF method = "POST" /\ Exists(favorite, user, pk) THEN HTTP_400_BAD_REQUEST
    ELSE IF method = "DELETE" /\ ~Exists(favorite, user, pk) THEN HTTP_400_BAD_REQUEST
    ELSE None

\* RecipeViewSet.add_delete_recipe_in_favorite, up to the write.
favorite_precheck(user, pk, method) ==
    IF user = Anonymous THEN HTTP_401_UNAUTHORIZED
    ELSE IF recipes[pk] = None THEN HTTP_404_NOT_FOUND
    ELSE IF method = "POST" /\ Exists(favorite, user, pk) THEN HTTP_400_BAD_REQUEST
    ELSE IF method = "DELETE" /\ ~Exists(favorite, user, pk) THEN HTTP_400_BAD_REQUEST
    ELSE None

\* A write whose DELETE branch filters the rows by recipe only.
favorite_written_recipe_rows(user, pk, method) ==
    IF method = "POST"
    THEN IF unique_favourite_recipe(favorite, user, pk)
         THEN [rows |-> Inserted(favorite, user, pk), status |-> HTTP_201_CREATED]
         ELSE [rows |-> favorite, status |-> HTTP_500_INTERNAL_SERVER_ERROR]
    ELSE [rows |-> DeletedOfAll(favorite, user, pk), status |-> HTTP_204_NO_CONTENT]

\* Favorite.objects.create(author=user, recipe=recipe) under the table's
\* constraint (an IntegrityError is answered 500), or favorite_item.delete().
favorite_written(user, pk, method) ==
    IF method = "POST"
    THEN IF unique_favourite_recipe(favorite, user, pk)
         THEN [rows |-> Inserted(favorite, user, pk), status |-> HTTP_201_CREATED]
         ELSE [rows |-> favorite, status |-> HTTP_500_INTERNAL_SERVER_ERROR]
    ELSE [rows |-> Deleted(favorite, user, pk), status |-> HTTP_204_NO_CONTENT]

\* RecipeViewSet.add_delete_recipe_in_favorite: POST/DELETE /recipes/{pk}/favorite/
add_delete_recipe_in_favorite(user, pk, method) ==
    /\ Idle
    /\ UNCHANGED <<recipes, recipe_seq, short_link, shopping_list, follow,
                   links, alloc, checked, answered, issued>>
    /\ LET status == favorite_precheck(user, pk, method)
           written == favorite_written(user, pk, method)
       IN  IF status # None
           THEN /\ Respond("favorite", method, status, None)
                /\ UNCHANGED favorite
           ELSE /\ favorite' = written.rows
                /\ Respond("favorite", method, written.status, None)
                /\ method = "POST" => RoomForRow

\* The shopping-cart view without the exists() query of its DELETE branch.
shopping_cart_precheck_remove_unchecked(user, pk, method) ==
    IF user = Anonymous THEN HTTP_401_UNAUTHORIZED
    ELSE IF recipes[pk] = None THEN HTTP_404_NOT_FOUND
    ELSE IF method = "POST" /\ Exists(shopping_list, user, pk) THEN HTTP_400_BAD_REQUEST
    ELSE None

\* RecipeViewSet.add_delete_recipe_for_shopping_list, up to the write.
shopping_cart_precheck(user, pk, method) ==
    IF user = Anonymous THEN HTTP_401_UNAUTHORIZED
    ELSE IF recipes[pk] = None THEN HTTP_404_NOT_FOUND
    ELSE IF method = "POST" /\ Exists(shopping_list, user, pk) THEN HTTP_400_BAD_REQUEST
    ELSE IF method = "DELETE" /\ ~Exists(shopping_list, user, pk) THEN HTTP_400_BAD_REQUEST
    ELSE None

\* ShoppingList.objects.create(user=request.user, recipe=recipe) under the
\* table's constraint, or shopping_item.delete().
shopping_cart_written(user, pk, method) ==
    IF method = "POST"
    THEN IF unique_shopping_list_user(shopping_list, user, pk)
         THEN [rows |-> Inserted(shopping_list, user, pk), status |-> HTTP_201_CREATED]
         ELSE [rows |-> shopping_list, status |-> HTTP_500_INTERNAL_SERVER_ERROR]
    ELSE [rows |-> Deleted(shopping_list, user, pk), status |-> HTTP_204_NO_CONTENT]

\* A shopping-cart view whose DELETE branch deletes the rows of the recipe
\* before it looks for the row of the user.
add_delete_recipe_for_shopping_list_delete_first(user, pk, method) ==
    /\ Idle
    /\ UNCHANGED <<recipes, recipe_seq, short_link, favorite, follow,
                   links, alloc, checked, answered, issued>>
    /\ LET status == shopping_cart_precheck(user, pk, method)
           written == shopping_cart_written(user, pk, method)
       IN  IF status # None
           THEN /\ Respond("shopping_cart", method, status, None)
                /\ shopping_list' = IF method = "DELETE" /\ status = HTTP_400_BAD_REQUEST
                                     THEN DeletedOfAll(shopping_list, user, pk)
                                     ELSE shopping_list
           ELSE /\ shopping_list' = written.rows
                /\ Respond("shopping_cart", method, written.status, None)
                /\ method = "POST" => RoomForRow

\* RecipeViewSet.add_delete_recipe_for_shopping_list:
\* POST/DELETE /recipes/{pk}/shopping_cart/
add_delete_recipe_for_shopping_list(user, pk, method) ==
    /\ Idle
    /\ UNCHANGED <<recipes, recipe_seq, short_link, favorite, follow,
                   links, alloc, checked, answered, issued>>
    /\ LET status == shopping_cart_precheck(user, pk, method)
           written == shopping_cart_written(user, pk, method)
       IN  IF status # None
           THEN /\ Respond("shopping_cart", method, status, None)
                /\ UNCHANGED shopping_list
           ELSE /\ shopping_list' = written.rows
                /\ Respond("shopping_cart", method, written.status, None)
                /\ method = "POST" => RoomForRow

\* The subscribe view with follower and author swapped in its queries.
subscribe_precheck_swapped(user, pk, method) ==
    IF user = Anonymous THEN NotAuthenticated
    ELSE IF pk \notin Users THEN HTTP_404_NOT_FOUND
    ELSE IF method = "POST" /\ user = pk THEN HTTP_400_BAD_REQUEST
    ELSE IF method = "POST" /\ Exists(follow, pk, user) THEN HTTP_400_BAD_REQUEST
    ELSE IF method = "DELETE" /\ ~Exists(follow, pk, user) THEN HTTP_400_BAD_REQUEST
    ELSE None

\* The subscribe view without the `user == author` test.
subscribe_precheck_self_unchecked(user, pk, method) ==
    IF user = Anonymous THEN NotAuthenticated
    ELSE IF pk \notin Users THEN HTTP_404_NOT_FOUND
    ELSE IF method = "POST" /\ Exists(follow, user, pk) THEN HTTP_400_BAD_REQUEST
    ELSE IF method = "DELETE" /\ ~Exists(follow, user, pk) THEN HTTP_400_BAD_REQUEST
    ELSE None

\* UserViewSet.subscribe, up to the write: the action's IsAuthenticated
\* permission, then get_object_or_404; pk may be the key of no user.
subscribe_precheck(user, pk, method) ==
    IF user = Anonymous THEN NotAuthenticated
    ELSE IF pk \notin Users THEN HTTP_404_NOT_FOUND
    ELSE IF method = "POST" /\ user = pk THEN HTTP_400_BAD_REQUEST
    ELSE IF method = "POST" /\ Exists(follow, user, pk) THEN HTTP_400_BAD_REQUEST
    ELSE IF method = "DELETE" /\ ~Exists(follow, user, pk) THEN HTTP_400_BAD_REQUEST
    ELSE None

\* Follow.objects.create(follower=user, author=author) under the table's two
\* constraints, or follow.delete().
subscribe_written(user, pk, method) ==
    IF method = "POST"
    THEN IF prevent_self_follow(user, pk) /\ unique_user_following(follow, user, pk)
         THEN [rows |-> Inserted(follow, user, pk), status |-> HTTP_201_CREATED]
         ELSE [rows |-> follow, status |-> HTTP_500_INTERNAL_SERVER_ERROR]
    ELSE [rows |-> Deleted(follow, user, pk), status |-> HTTP_204_NO_CONTENT]

\* UserViewSet.subscribe: POST/DELETE /users/{pk}/subscribe/
subscribe(user, pk, method) ==
    /\ Idle
    /\ UNCHANGED <<recipes, recipe_seq, short_link, favorite, shopping_list,
                   links, alloc, checked, answered, issued>>
    /\ LET status == subscribe_precheck(user, pk, method)
           written == subscribe_written(user, pk, method)
       IN  IF status # None
           THEN /\ Respond("subscribe", method, status, None)
                /\ UNCHANGED follow
           ELSE /\ follow' = written.rows
                /\ Respond("subscribe", method, written.status, None)
                /\ method = "POST" => RoomForRow

\* The admin site's add form of FavouriteRecipe (FavoriteAdmin): the form is
\* validated against the model's constraint (an invalid form is shown again,
\* 200) and saved (302).
FavoriteAdmin_add(user, pk) ==
    /\ Idle
    /\ recipes[pk] # None
    /\ UNCHANGED <<recipes, recipe_seq, short_link, shopping_list, follow,
                   links, alloc, checked, answered, issued>>
    /\ IF unique_favourite_recipe(favorite, user, pk)
       THEN /\ RoomForRow
            /\ favorite' = Inserted(favorite, user, pk)
            /\ Respond("admin_favorite", "POST", HTTP_302_FOUND, None)
       ELSE /\ UNCHANGED favorite
            /\ Respond("admin_favorite", "POST", HTTP_200_OK, None)

\* The admin site's add form of ShoppingList (ShoppingCartAdmin).
ShoppingCartAdmin_add(user, pk) ==
    /\ Idle
    /\ recipes[pk] # None
    /\ UNCHANGED <<recipes, recipe_seq, short_link, favorite, follow,
                   links, alloc, checked, answered, issued>>
    /\ IF unique_shopping_list_user(shopping_list, user, pk)
       THEN /\ RoomForRow
            /\ shopping_list' = Inserted(shopping_list, user, pk)
            /\ Respond("admin_shopping_cart", "POST", HTTP_302_FOUND, None)
       ELSE /\ UNCHANGED shopping_list
            /\ Respond("admin_shopping_cart", "POST", HTTP_200_OK, None)

\* ------------------------------------------- add requests that interleave
\* The server runs its requests in several workers and every query is its own
\* transaction (autocommit), so another request's queries can fall between a
\* view's exists() query and its create(). An add request is followed here in
\* two steps, its reads and its write; NWorkers add requests are followed.

\* The status an add request is answered after its reads, None when it goes on.
add_precheck(action, user, pk) ==
    CASE action = "favorite" -> favorite_precheck(user, pk, "POST")
      [] action = "shopping_cart" -> shopping_cart_precheck(user, pk, "POST")
      [] action = "subscribe" -> subscribe_precheck(user, pk, "POST")

\* How many add requests of this kind for this pair were taken up so far.
Taken(action, user, pk) ==
    Cardinality({q \in checked \cup {[action |-> a.action, user |-> a.user, pk |-> a.pk,
                                      n |-> a.n] : a \in answered} :
                 q.action = action /\ q.user = user /\ q.pk = pk})

Answered(q, status) ==
    answered' = answered \cup {[action |-> q.action, user |-> q.user, pk |-> q.pk,
                                n |-> q.n, status |-> status]}

\* The reads of an add request: the lookups and the exists() query.
add_request_reads(action, user, pk) ==
    /\ alloc = None
    /\ Cardinality(checked) + Cardinality(answered) < NWorkers
    /\ UNCHANGED <<db, alloc, issued>>
    /\ LET q == [action |-> action, user |-> user, pk |-> pk,
                 n |-> Taken(action, user, pk) + 1]
           status == add_precheck(action, user, pk)
       IN  IF status # None
           THEN /\ Answered(q, status)
                /\ Respond(action, "POST", status, None)
                /\ UNCHANGED checked
           ELSE /\ checked' = checked \cup {q}
                /\ UNCHANGED <<answered, response>>

\* The write of an add request that passed its reads: create() and the answer.
add_request_writes(q) ==
    /\ q \in checked
    /\ checked' = checked \ {q}
    /\ UNCHANGED <<recipes, recipe_seq, short_link, links, alloc, issued>>
    /\ CASE q.action = "favorite" ->
              LET written == favorite_written(q.user, q.pk, "POST")
              IN  /\ favorite' = written.rows
                  /\ Answered(q, written.status)
                  /\ Respond(q.action, "POST", written.status, None)
                  /\ UNCHANGED <<shopping_list, follow>>
         [] q.action = "shopping_cart" ->
              LET written == shopping_cart_written(q.user, q.pk, "POST")
              IN  /\ shopping_list' = written.rows
                  /\ Answered(q, written.status)
                  /\ Respond(q.action, "POST", written.status, None)
                  /\ UNCHANGED <<favorite, follow>>
         [] q.action = "subscribe" ->
              LET written == subscribe_written(q.user, q.pk, "POST")
              IN  /\ follow' = written.rows
                  /\ Answered(q, written.status)
                  /\ Respond(q.action, "POST", written.status, None)
                  /\ UNCHANGED <<favorite, shopping_list>>

NextRace ==
    \/ \E user \in Users, pk \in RecipeIds : add_request_reads("favorite", user, pk)
    \/ \E user \in Users, pk \in RecipeIds : add_request_reads("shopping_cart", user, pk)
    \/ \E user \in Users, pk \in UserIds : add_request_reads("subscribe", user, pk)
    \/ \E q \in checked : add_request_writes(q)

\* NWorkers add requests on the populated database, interleaved in every way.
SpecRace == Populated /\ [][NextRace]_vars

\* ------------------------------------------------- recipes and short links
\* The creation of recipe pk goes on to allocate its short link (the eager
\* variant of the allocator).
allocation_started(pk) == alloc' = pk

\* rest_framework's IsAuthenticated.
IsAuthenticated(user) == user # Anonymous

\* permissions.IsAuthorOrReadOnly.has_object_permission for a writing request.
IsAuthorOrReadOnly(user, pk) == recipes[pk] = user

\* A version of get_permissions whose list of guarded actions lacks the updates.
get_permissions_updates_open(action) ==
    IF action \in {"create", "destroy"}
    THEN {"IsAuthenticated", "IsAuthorOrReadOnly"}
    ELSE {"AllowAny"}

\* RecipeViewSet.get_permissions: the permissions of the view set's actions;
\* the permission_classes that an @action declares are not looked at.
get_permissions(action) ==
    IF action \in {"create", "update", "partial_update", "destroy"}
    THEN {"IsAuthenticated", "IsAuthorOrReadOnly"}
    ELSE {"AllowAny"}

\* The status that the permission checks and get_object() of a recipe's write
\* action answer, None when the request passes them.
get_object(action, user, pk) ==
    IF "IsAuthenticated" \in get_permissions(action) /\ ~IsAuthenticated(user)
    THEN NotAuthenticated
    ELSE IF recipes[pk] = None THEN HTTP_404_NOT_FOUND
    ELSE IF "IsAuthorOrReadOnly" \in get_permissions(action) /\ ~IsAuthorOrReadOnly(user, pk)
    THEN HTTP_403_FORBIDDEN
    ELSE None

\* Whether a list names an element twice.
Repeated(ids) == Cardinality({ids[k] : k \in DOMAIN ids}) # Len(ids)

\* The ids of the ingredients of a request.
IngredientIds(ingredients) == [k \in DOMAIN ingredients |-> ingredients[k].id]

\* A validate() that does not compare the ingredients with each other.
validate_repeats_unchecked(data) ==
    IF ~data.has_tags \/ data.tags = <<>> THEN HTTP_400_BAD_REQUEST
    ELSE IF ~data.has_ingredients \/ data.ingredients = <<>> THEN HTTP_400_BAD_REQUEST
    ELSE IF Repeated(data.tags) THEN HTTP_400_BAD_REQUEST
    ELSE None

\* A validate() without the tests of the tag list being empty.
validate_empty_tags_unchecked(data) ==
    IF ~data.has_tags THEN HTTP_400_BAD_REQUEST
    ELSE IF ~data.has_ingredients \/ data.ingredients = <<>> THEN HTTP_400_BAD_REQUEST
    ELSE IF Repeated(IngredientIds(data.ingredients)) THEN HTTP_400_BAD_REQUEST
    ELSE IF Repeated(data.tags) THEN HTTP_400_BAD_REQUEST
    ELSE None

\* CreateRecipeSerializer.validate: the status of the ValidationError it
\* raises, None when it returns the data. data.get() of a field that the
\* request does not carry is None.
validate(data) ==
    IF ~data.has_tags \/ data.tags = <<>> THEN HTTP_400_BAD_REQUEST
    ELSE IF ~data.has_ingredients \/ data.ingredients = <<>> THEN HTTP_400_BAD_REQUEST
    ELSE IF Repeated(IngredientIds(data.ingredients)) THEN HTTP_400_BAD_REQUEST
    ELSE IF Repeated(data.tags) THEN HTTP_400_BAD_REQUEST
    ELSE None

\* The amount field of CreateRecipeIngredientSerializer, built from the
\* model field: its MinValueValidator becomes the field's min_value, and
\* validate_amount raises nothing.
amount_valid(ingredients) ==
    \A k \in DOMAIN ingredients : ingredients[k].amount >= MIN_AMOUNT_SUM

\* serializer.is_valid(): a serializer that is not partial requires its
\* fields; then validate().
is_valid(data, partial) ==
    IF ~partial /\ (~data.has_ingredients \/ ~data.has_tags) THEN HTTP_400_BAD_REQUEST
    ELSE IF data.has_ingredients /\ ~amount_valid(data.ingredients) THEN HTTP_400_BAD_REQUEST
    ELSE validate(data)

\* The validated data of a serializer that declares 'author' among its fields.
validated_author_declared(data) == IF data.has_author THEN data.author ELSE None

\* The author in the validated data of CreateRecipeSerializer, None when the
\* validated data has no author: Meta.fields does not name 'author', so the
\* key of a request is dropped.
validated_author(data) == None

\* An update that stores the rows of the request beside the rows that the
\* recipe has.
serializer_update_kept(pk, data) ==
    /\ recipes' = [recipes EXCEPT ![pk] = IF validated_author(data) = None THEN @
                                          ELSE validated_author(data)]
    /\ recipe_ingredients' = recipe_ingredients \cup IngredientRows(pk, data.ingredients)
    /\ recipe_tags' = recipe_tags \cup TagRows(pk, data.tags)

\* CreateRecipeSerializer.update: the link rows of the recipe are deleted and
\* the rows of the request are stored; ModelSerializer.update then sets the
\* attributes of the validated data on the instance.
serializer_update(pk, data) ==
    /\ recipes' = [recipes EXCEPT ![pk] = IF validated_author(data) = None THEN @
                                          ELSE validated_author(data)]
    /\ recipe_ingredients' = {row \in recipe_ingredients : row[1] # pk}
                                  \cup IngredientRows(pk, data.ingredients)
    /\ recipe_tags' = {row \in recipe_tags : row[1] # pk} \cup TagRows(pk, data.tags)

\* RecipeViewSet.create -> perform_create -> CreateRecipeSerializer.create:
\* the recipe is saved with the requesting user as its author (the author of
\* serializer.save(author=...) replaces any author of the validated data)
\* under the next primary key, with its link rows; the request then
\* allocates the recipe's short link.
create(user, data) ==
    /\ Idle
    /\ UNCHANGED <<short_link, favorite, shopping_list, follow, checked, answered, issued>>
    /\ LET status == IF "IsAuthenticated" \in get_permissions("create") /\ ~IsAuthenticated(user)
                     THEN NotAuthenticated
                     ELSE is_valid(data, FALSE)
       IN  IF status # None
           THEN /\ Respond("create", "POST", status, None)
                /\ UNCHANGED <<recipes, recipe_seq, links, alloc>>
           ELSE /\ recipe_seq < NRecipes
                /\ recipe_seq' = recipe_seq + 1
                /\ recipes' = [recipes EXCEPT ![recipe_seq + 1] = user]
                /\ recipe_ingredients' =
                       recipe_ingredients \cup IngredientRows(recipe_seq + 1, data.ingredients)
                /\ recipe_tags' = recipe_tags \cup TagRows(recipe_seq + 1, data.tags)
                /\ allocation_started(recipe_seq + 1)
                /\ UNCHANGED response

\* RecipeViewSet.update: PUT /recipes/{pk}/. The second test of the view
\* answers 400 to a request whose 'amount' key is not below 1.
update(user, pk, data) ==
    /\ Idle
    /\ UNCHANGED <<recipe_seq, short_link, favorite, shopping_list, follow,
                   alloc, checked, answered, issued>>
    /\ LET denied == get_object("update", user, pk)
           status == IF denied # None THEN denied
                     ELSE IF data.has_ingredients /\ data.ingredients = <<>>
                     THEN HTTP_400_BAD_REQUEST
                     ELSE IF data.has_amount /\ ~(data.amount < 1)
                     THEN HTTP_400_BAD_REQUEST
                     ELSE is_valid(data, TRUE)
       IN  IF status # None
           THEN /\ Respond("update", "PUT", status, None)
                /\ UNCHANGED <<recipes, links>>
           ELSE /\ serializer_update(pk, data)
                /\ Respond("update", "PUT", HTTP_200_OK, None)

\* RecipeViewSet.partial_update: PATCH /recipes/{pk}/. Ingredient.objects
\* .filter(id__in=ids).count() is the number of different ids, every id of a
\* request being the id of an ingredient.
partial_update(user, pk, data) ==
    /\ Idle
    /\ UNCHANGED <<recipe_seq, short_link, favorite, shopping_list, follow,
                   alloc, checked, answered, issued>>
    /\ LET denied == get_object("partial_update", user, pk)
           status == IF denied # None THEN denied
                     ELSE IF ~data.has_ingredients THEN HTTP_400_BAD_REQUEST
                     ELSE IF ~data.has_tags THEN HTTP_400_BAD_REQUEST
                     ELSE IF data.ingredients = <<>> THEN HTTP_400_BAD_REQUEST
                     ELSE IF Repeated(IngredientIds(data.ingredients))
                     THEN HTTP_400_BAD_REQUEST
                     ELSE IF data.tags = <<>> THEN HTTP_400_BAD_REQUEST
                     ELSE IF Repeated(data.tags) THEN HTTP_400_BAD_REQUEST
                     ELSE is_valid(data, TRUE)
       IN  IF status # None
           THEN /\ Respond("partial_update", "PATCH", status, None)
                /\ UNCHANGED <<recipes, links>>
           ELSE /\ serializer_update(pk, data)
                /\ Respond("partial_update", "PATCH", HTTP_200_OK, None)

\* The tokens that ShortLinkRecipe rows hold.
UsedTokens == {short_link[r] : r \in RecipeIds} \ {None}

\* Every token of the token space is assigned.
Saturated == Tokens \subseteq UsedTokens

\* A turn of the loop that stores the drawn token without looking for it
\* among the stored ones.
generate_short_link_unchecked(token) ==
    /\ alloc # None
    /\ short_link' = [short_link EXCEPT ![alloc] = token]
    /\ alloc' = None
    /\ Respond("create", "POST", HTTP_201_CREATED, None)
    /\ UNCHANGED <<recipes, recipe_seq, favorite, shopping_list, follow, links,
                   checked, answered, issued>>

\* A loop capped at one turn: a collision ends the request with an error.
generate_short_link_capped(token) ==
    /\ alloc # None
    /\ IF token \in UsedTokens
       THEN /\ alloc' = None
            /\ Respond("create", "POST", HTTP_500_INTERNAL_SERVER_ERROR, None)
            /\ UNCHANGED short_link
       ELSE /\ short_link' = [short_link EXCEPT ![alloc] = token]
            /\ alloc' = None
            /\ Respond("create", "POST", HTTP_201_CREATED, None)
    /\ UNCHANGED <<recipes, recipe_seq, favorite, shopping_list, follow, links,
                   checked, answered, issued>>

\* One turn of the allocation loop with the random token drawn: a token that a
\* row already holds is drawn again, another one is stored and the creation is
\* answered 201. The loop has no bound on its turns.
generate_short_link(token) ==
    /\ alloc # None
    /\ IF token \in UsedTokens
       THEN UNCHANGED <<short_link, alloc, response>>
       ELSE /\ short_link' = [short_link EXCEPT ![alloc] = token]
            /\ alloc' = None
            /\ Respond("create", "POST", HTTP_201_CREATED, None)
    /\ UNCHANGED <<recipes, recipe_seq, favorite, shopping_list, follow, links,
                   checked, answered, issued>>

\* The history of get-link's answers for a recipe: the first token and the latest.
Issued(pk, token) ==
    [issued EXCEPT ![pk] = IF @ = <<>> THEN <<token>> ELSE <<@[1], token>>]

\* A get-link view that draws a token at each call instead of reading the
\* stored one.
get_short_link_recipe_redrawn(pk) ==
    /\ Idle
    /\ UNCHANGED <<db, alloc, checked, answered>>
    /\ IF recipes[pk] = None
       THEN Respond("get-link", "GET", HTTP_404_NOT_FOUND, None) /\ UNCHANGED issued
       ELSE \E token \in Tokens :
                /\ Respond("get-link", "GET", HTTP_200_OK, token)
                /\ issued' = Issued(pk, token)

\* A get-link view that reads Recipe.short_link, the field of the recipe row
\* that no request fills, instead of the ShortLinkRecipe row.
get_short_link_recipe_from_field(pk) ==
    /\ Idle
    /\ UNCHANGED <<db, alloc, checked, answered, issued>>
    /\ Respond("get-link", "GET", HTTP_404_NOT_FOUND, None)

\* RecipeViewSet.get_short_link_recipe: GET /recipes/{pk}/get-link/
get_short_link_recipe(pk) ==
    /\ Idle
    /\ UNCHANGED <<db, alloc, checked, answered>>
    /\ IF recipes[pk] = None
       THEN Respond("get-link", "GET", HTTP_404_NOT_FOUND, None) /\ UNCHANGED issued
       ELSE IF short_link[pk] = None
       THEN Respond("get-link", "GET", HTTP_404_NOT_FOUND, None) /\ UNCHANGED issued
       ELSE /\ Respond("get-link", "GET", HTTP_200_OK, short_link[pk])
            /\ issued' = Issued(pk, short_link[pk])

\* RecipeViewSet.destroy: DELETE /recipes/{pk}/ by an authenticated user. The
\* rows that refer to the recipe go with it (on_delete=CASCADE).
destroy(user, pk) ==
    /\ Idle
    /\ UNCHANGED <<recipe_seq, follow, alloc, checked, answered>>
    /\ IF get_object("destroy", user, pk) # None
       THEN /\ Respond("recipe", "DELETE", get_object("destroy", user, pk), None)
            /\ UNCHANGED <<recipes, short_link, favorite, shopping_list, links, issued>>
       ELSE IF recipes[pk] # user
       THEN /\ Respond("recipe", "DELETE", HTTP_403_FORBIDDEN, None)
            /\ UNCHANGED <<recipes, short_link, favorite, shopping_list, links, issued>>
       ELSE /\ recipes' = [recipes EXCEPT ![pk] = None]
            /\ short_link' = [short_link EXCEPT ![pk] = None]
            /\ favorite' = Cascaded(favorite, pk)
            /\ shopping_list' = Cascaded(shopping_list, pk)
            /\ recipe_ingredients' = CascadedRows(recipe_ingredients, pk)
            /\ recipe_tags' = CascadedRows(recipe_tags, pk)
            /\ issued' = [issued EXCEPT ![pk] = <<>>]
            /\ Respond("recipe", "DELETE", HTTP_204_NO_CONTENT, None)

\* The toggle requests, the admin's add forms and the deletion of recipes, one
\* request at a time.
NextToggle ==
    \/ \E user \in Users \cup {Anonymous}, pk \in RecipeIds, method \in Methods :
           add_delete_recipe_in_favorite(user, pk, method)
    \/ \E user \in Users \cup {Anonymous}, pk \in RecipeIds, method \in Methods :
           add_delete_recipe_for_shopping_list(user, pk, method)
    \/ \E user \in Users, pk \in UserIds, method \in Methods : subscribe(user, pk, method)
    \/ \E user \in Users, pk \in RecipeIds : FavoriteAdmin_add(user, pk)
    \/ \E user \in Users, pk \in RecipeIds : ShoppingCartAdmin_add(user, pk)
    \/ \E user \in Users, pk \in RecipeIds : destroy(user, pk)
    \/ ResponseSent

\* The toggle requests on the populated database.
SpecToggle == Populated /\ [][NextToggle]_vars

\* The allocation loop's turns.
Allocate == \E token \in Tokens : generate_short_link(token)

\* The life of a recipe without get-link.
NextAlloc ==
    \/ \E user \in Users : create(user, SeedData(recipe_seq + 1))
    \/ Allocate
    \/ \E user \in Users, pk \in RecipeIds : destroy(user, pk)
    \/ ResponseSent

\* The life of a recipe and its short link, one request at a time.
NextLink ==
    \/ NextAlloc
    \/ \E pk \in RecipeIds : get_short_link_recipe(pk)

SpecLink == Init /\ [][NextLink]_vars

\* The random draw is fair: a token that would end the loop is drawn in the end.
SpecLinkFair ==
    Init /\ [][NextAlloc]_vars /\ \A token \in Tokens : WF_vars(generate_short_link(token))

\* ------------------------------------------------------ the shopping list
\* The rows of a user's cart: row n of the pair (user, recipe).
CartRows(user) ==
    {<<r, n>> : r \in RecipeIds, n \in 1..MaxRows} \cap
    {row \in RecipeIds \X (1..MaxRows) : row[2] <= shopping_list[<<user, row[1]>>]}

\* BaseFavouriteAndShopping.Meta.ordering = ('user',): the rows of one user
\* are equal under the ordering, so the database returns them in any order.
Orders(rows) ==
    {order \in [1..Cardinality(rows) -> rows] :
        \A a, b \in 1..Cardinality(rows) : a # b => order[a] # order[b]}

\* The file that download_csv writes: the header row and one row per row of
\* the cart, its cells under the header's columns. A recipe's name stands
\* for the recipe.
CsvFile(user, order) ==
    [header |-> <<"User", "Recipe">>,
     rows |-> [k \in DOMAIN order |-> [User |-> user, Recipe |-> order[k][1]]]]

\* RecipeViewSet.download_csv: GET /recipes/download_shopping_cart/. The
\* action is not in the list of get_permissions, so every requester is let
\* in; filter(user=request.user) raises for the anonymous user, which the
\* framework answers with 500.
download_csv(user) ==
    /\ Idle
    /\ UNCHANGED <<db, alloc, checked, answered, issued>>
    /\ IF "IsAuthenticated" \in get_permissions("download_csv") /\ ~IsAuthenticated(user)
       THEN Respond("download_shopping_cart", "GET", NotAuthenticated, None)
       ELSE IF ~IsAuthenticated(user)
       THEN Respond("download_shopping_cart", "GET", HTTP_500_INTERNAL_SERVER_ERROR, None)
       ELSE \E order \in Orders(CartRows(user)) :
                Respond("download_shopping_cart", "GET", HTTP_200_OK, CsvFile(user, order))

\* The cart of a user and its download, one request at a time.
NextCart ==
    \/ \E user \in Users, pk \in RecipeIds, method \in Methods :
           add_delete_recipe_for_shopping_list(user, pk, method)
    \/ \E user \in Users \cup {Anonymous} : download_csv(user)
    \/ ResponseSent

SpecCart == Populated /\ [][NextCart]_vars

\* ------------------------------------------------- the writes of a recipe
\* The ingredient lists of the requests: none, two valid ones, and one that
\* names flour twice.
IngredientLists ==
    {<<>>,
     <<[id |-> "flour", amount |-> 2]>>,
     <<[id |-> "salt", amount |-> 1], [id |-> "flour", amount |-> 1]>>,
     <<[id |-> "flour", amount |-> 1], [id |-> "flour", amount |-> 2]>>}

\* The tag lists of the requests: none, two valid ones, and one with a repeat.
TagLists == {<<>>, <<"dinner">>, <<"lunch", "dinner">>, <<"lunch", "lunch">>}

\* The valid requests that name an author.
AuthorPayloads ==
    {WithAuthor(Data(TRUE, <<[id |-> "flour", amount |-> 2]>>, TRUE, <<"dinner">>), a) :
         a \in Users}

\* The requests that differ from a valid one in an amount: an ingredient
\* with amount 0, and an 'amount' key beside the lists, below 1 and not.
AmountPayloads ==
    {Data(TRUE, <<[id |-> "salt", amount |-> 1], [id |-> "flour", amount |-> 0]>>,
          TRUE, <<"dinner">>),
     WithAmount(Data(TRUE, <<[id |-> "flour", amount |-> 2]>>, TRUE, <<"dinner">>), 0),
     WithAmount(Data(TRUE, <<[id |-> "flour", amount |-> 2]>>, TRUE, <<"dinner">>), 1)}

\* The requests of the recipe's writes: the requests with two valid lists,
\* the requests with one field missing, empty or with a repeat beside a valid
\* one, the request that carries neither field, the requests that differ in
\* an amount and the requests that name an author.
Payloads ==
    AuthorPayloads \cup AmountPayloads \cup
    {Data(TRUE, i, TRUE, t) : i \in IngredientLists, t \in {<<"dinner">>}}
        \cup {Data(TRUE, i, TRUE, t) :
                 i \in {<<[id |-> "flour", amount |-> 2]>>}, t \in TagLists}
        \cup {Data(TRUE, i, TRUE, <<"lunch", "dinner">>) :
                 i \in {x \in IngredientLists : x # <<>> /\ ~Repeated(IngredientIds(x))}}
        \cup {Data(FALSE, <<>>, TRUE, <<"dinner">>),
               Data(TRUE, <<[id |-> "flour", amount |-> 2]>>, FALSE, <<>>),
               Data(FALSE, <<>>, FALSE, <<>>)}

\* The populated database after the recipes but the first were deleted by
\* their authors: the start of the writes, with one key left to create.
Started ==
    /\ recipes = [r \in RecipeIds |-> IF r = 1 THEN SeedAuthor(1) ELSE None]
    /\ recipe_seq = NRecipes - 1
    /\ short_link = [r \in RecipeIds |-> IF r = 1 THEN 1 ELSE None]
    /\ favorite = EmptyTable(RecipePairs)
    /\ shopping_list = EmptyTable(RecipePairs)
    /\ follow = EmptyTable(UserPairs)
    /\ recipe_ingredients = IngredientRows(1, SeedData(1).ingredients)
    /\ recipe_tags = TagRows(1, SeedData(1).tags)
    /\ alloc = None
    /\ checked = {}
    /\ answered = {}
    /\ issued = [r \in RecipeIds |-> <<>>]
    /\ response = NoResponse

\* The writes of recipes by users and by unauthenticated clients, one request
\* at a time.
NextRecipe ==
    \/ \E user \in Users \cup {Anonymous}, data \in Payloads : create(user, data)
    \/ Allocate
    \/ \E user \in Users \cup {Anonymous}, pk \in RecipeIds, data \in Payloads :
           update(user, pk, data)
    \/ \E user \in Users \cup {Anonymous}, pk \in RecipeIds, data \in Payloads :
           partial_update(user, pk, data)
    \/ \E user \in Users \cup {Anonymous}, pk \in RecipeIds : destroy(user, pk)
    \/ ResponseSent

SpecRecipe == Started /\ [][NextRecipe]_vars

\* The valid requests that populated the database.
SeedPayloads == {SeedData(1), SeedData(2)}

\* Every request that stores a row which refers to a recipe, and the deletion
\* of recipes, one request at a time.
NextCascade ==
    \/ \E user \in Users, data \in SeedPayloads : create(user, data)
    \/ Allocate
    \/ \E user \in Users, pk \in RecipeIds, data \in SeedPayloads : update(user, pk, data)
    \/ \E user \in Users, pk \in RecipeIds, data \in SeedPayloads :
           partial_update(user, pk, data)
    \/ \E user \in Users, pk \in RecipeIds, method \in Methods :
           add_delete_recipe_in_favorite(user, pk, method)
    \/ \E user \in Users, pk \in RecipeIds, method \in Methods :
           add_delete_recipe_for_shopping_list(user, pk, method)
    \/ \E user \in Users, pk \in RecipeIds : destroy(user, pk)
    \/ ResponseSent

SpecCascade == Started /\ [][NextCascade]_vars

\* ------------------------------------------------- the user-scoped actions
\* UserViewSet.subscriptions: GET /users/subscriptions/ under the action's
\* IsAuthenticated permission; the answer lists the authors that the
\* requester follows.
subscriptions(user) ==
    /\ Idle
    /\ UNCHANGED <<db, alloc, checked, answered, issued>>
    /\ IF ~IsAuthenticated(user)
       THEN Respond("subscriptions", "GET", NotAuthenticated, None)
       ELSE Respond("subscriptions", "GET", HTTP_200_OK,
                    {author \in Users : Exists(follow, user, author)})

\* UserViewSet.profile_user: GET /users/me/, open to every requester; the
\* view answers 401 to the anonymous user itself.
profile_user(user) ==
    /\ Idle
    /\ UNCHANGED <<db, alloc, checked, answered, issued>>
    /\ IF user = Anonymous
       THEN Respond("me", "GET", HTTP_401_UNAUTHORIZED, None)
       ELSE Respond("me", "GET", HTTP_200_OK, user)

\* The user-scoped actions and get-link, asked by users and by
\* unauthenticated clients, one request at a time.
NextScoped ==
    \/ \E user \in Users \cup {Anonymous}, pk \in RecipeIds, method \in Methods :
           add_delete_recipe_in_favorite(user, pk, method)
    \/ \E user \in Users \cup {Anonymous}, pk \in RecipeIds, method \in Methods :
           add_delete_recipe_for_shopping_list(user, pk, method)
    \/ \E user \in Users \cup {Anonymous}, pk \in UserIds, method \in Methods :
           subscribe(user, pk, method)
    \/ \E user \in Users \cup {Anonymous} : subscriptions(user)
    \/ \E user \in Users \cup {Anonymous} : download_csv(user)
    \/ \E user \in Users \cup {Anonymous} : profile_user(user)
    \/ \E pk \in RecipeIds : get_short_link_recipe(pk)
    \/ ResponseSent

SpecScoped == Populated /\ [][NextScoped]_vars

\* The requests that name a recipe or a user by its id, asked by users and by
\* unauthenticated clients, one request at a time; the get-link requests are
\* those that name the key of no recipe.
NextNamed ==
    \/ \E user \in Users \cup {Anonymous}, pk \in RecipeIds, method \in Methods :
           add_delete_recipe_in_favorite(user, pk, method)
    \/ \E user \in Users \cup {Anonymous}, pk \in RecipeIds, method \in Methods :
           add_delete_recipe_for_shopping_list(user, pk, method)
    \/ \E user \in Users \cup {Anonymous}, pk \in UserIds, method \in Methods :
           subscribe(user, pk, method)
    \/ \E pk \in RecipeIds : recipes[pk] = None /\ get_short_link_recipe(pk)
    \/ ResponseSent

SpecNamed == Populated /\ [][NextNamed]_vars

\* ------------------------------------------------------ the list of recipes
\* query_params.get() of a parameter that the request does not carry.
Absent == "None"

\* The values of is_favorited and is_in_shopping_cart in the requests: no
\* parameter, the two values that the view knows, and the empty string, which
\* is neither of them.
FlagValues == {Absent, "", "0", "1"}

\* The slugs that the requests name: the slugs of the tags and the slug of no tag.
Slugs == Tags \cup {"supper"}

\* The query parameters of a list request.
Queries ==
    [is_favorited : FlagValues, is_in_shopping_cart : FlagValues,
     author : {None, SeedAuthor(1)}, tags : SUBSET Slugs]

\* Recipe.objects.all(): a queryset is the number of rows of each recipe in it.
all == [r \in RecipeIds |-> IF recipes[r] # None THEN 1 ELSE 0]

\* The rows of a table of a requester and a recipe; no row is the anonymous user's.
RowsOf(tbl, user, r) == IF user \in Users THEN tbl[<<user, r>>] ELSE 0

\* The is_favorited filter without the test of the requester.
filter_is_favorited_unguarded(queryset, user, value) ==
    IF value # Absent
    THEN IF value = "1"
         THEN [r \in RecipeIds |-> IF RowsOf(favorite, user, r) > 0 THEN queryset[r] ELSE 0]
         ELSE IF value = "0"
         THEN [r \in RecipeIds |-> IF RowsOf(favorite, user, r) > 0 THEN 0 ELSE queryset[r]]
         ELSE queryset
    ELSE queryset

\* get_queryset, the is_favorited parameter: the annotation is an EXISTS, so
\* the filter multiplies no row.
filter_is_favorited(queryset, user, value) ==
    IF value # Absent /\ IsAuthenticated(user)
    THEN IF value = "1"
         THEN [r \in RecipeIds |-> IF RowsOf(favorite, user, r) > 0 THEN queryset[r] ELSE 0]
         ELSE IF value = "0"
         THEN [r \in RecipeIds |-> IF RowsOf(favorite, user, r) > 0 THEN 0 ELSE queryset[r]]
         ELSE queryset
    ELSE queryset

\* The is_in_shopping_cart filter that takes the value 0 for no value.
filter_is_in_shopping_cart_zero_unset(queryset, user, value) ==
    IF value # Absent /\ value # "" /\ value # "0" /\ IsAuthenticated(user)
    THEN IF value = "1"
         THEN [r \in RecipeIds |-> queryset[r] * RowsOf(shopping_list, user, r)]
         ELSE queryset
    ELSE queryset

\* get_queryset, the is_in_shopping_cart parameter: filter() joins the cart's
\* rows, exclude() drops the recipes that have one.
filter_is_in_shopping_cart(queryset, user, value) ==
    IF value # Absent /\ value # "" /\ IsAuthenticated(user)
    THEN IF value = "1"
         THEN [r \in RecipeIds |-> queryset[r] * RowsOf(shopping_list, user, r)]
         ELSE IF value = "0"
         THEN [r \in RecipeIds |-> IF RowsOf(shopping_list, user, r) > 0 THEN 0 ELSE queryset[r]]
         ELSE queryset
    ELSE queryset

\* get_queryset, the author parameter (and filterset_fields = ['author']).
filter_author(queryset, author_id) ==
    IF author_id # None
    THEN [r \in RecipeIds |-> IF recipes[r] = author_id THEN queryset[r] ELSE 0]
    ELSE queryset

\* filter(tags__slug__in=tags): the join has one row per link of a recipe to
\* a tag that is named.
joined(queryset, tags) ==
    [r \in RecipeIds |-> queryset[r] * Cardinality({t \in tags : <<r, t>> \in recipe_tags})]

\* The tags filter without .distinct().
filter_tags_joined(queryset, tags) ==
    IF tags # {} THEN joined(queryset, tags) ELSE queryset

\* get_queryset, the tags parameter: filter(tags__slug__in=tags).distinct().
filter_tags(queryset, tags) ==
    IF tags # {}
    THEN [r \in RecipeIds |-> IF joined(queryset, tags)[r] > 0 THEN 1 ELSE 0]
    ELSE queryset

\* RecipeViewSet.get_queryset
get_queryset(user, query) ==
    filter_tags(
        filter_author(
            filter_is_in_shopping_cart(
                filter_is_favorited(all, user, query.is_favorited),
                user, query.is_in_shopping_cart),
            query.author),
        query.tags)

\* RecipeViewSet.list: GET /recipes/, open to every requester. The answer is
\* kept with the request that it answers; the pages and the order of the
\* list are left out.
list(user, query) ==
    /\ Idle
    /\ UNCHANGED <<db, alloc, checked, answered, issued>>
    /\ Respond("list", "GET", HTTP_200_OK,
               [user |-> user, query |-> query, results |-> get_queryset(user, query)])

\* The list of recipes, asked by every user and by unauthenticated clients
\* while the first user fills the favorites and the cart: the list of a
\* requester with rows, of requesters without rows and of no user.
NextList ==
    \/ \E user \in Users \cup {Anonymous}, query \in Queries : list(user, query)
    \/ \E pk \in RecipeIds : add_delete_recipe_in_favorite(SeedAuthor(1), pk, "POST")
    \/ \E pk \in RecipeIds : add_delete_recipe_for_shopping_list(SeedAuthor(1), pk, "POST")
    \/ ResponseSent

SpecList == Populated /\ [][NextList]_vars

\* ------------------------------------------------------- the whole program
\* Every request above, one at a time. The claims are checked on the parts of
\* it: SpecToggle and SpecRace start where SpecLink has populated the database.
Next == NextToggle \/ NextLink \/ NextCart \/ NextRecipe \/ NextCascade \/ NextScoped \/ NextList

Spec == Init /\ [][Next]_vars

\* ------------------------------------------------------------------ claims

\* C1: for an authenticated user u and an existing recipe r, whatever requests
\* came before, POST /recipes/{r}/favorite/ answers 201 and adds the pair
\* (u, r) when it is absent and answers 400, changing nothing, when it is
\* present; DELETE answers 204 and removes the pair when it is present and
\* answers 400, changing nothing, when it is absent. (A step of the view is a
\* step whose answer is the view's; the formula looks at those steps only.)
C1_FavoriteContract ==
    [][response'.action = "favorite" =>
       \A u \in Users, r \in RecipeIds :
         recipes[r] # None =>
           /\ (response'.method = "POST" /\ add_delete_recipe_in_favorite(u, r, "POST")) =>
                IF favorite[<<u, r>>] = 0
                THEN /\ response'.status = HTTP_201_CREATED
                     /\ favorite' = [favorite EXCEPT ![<<u, r>>] = 1]
                ELSE /\ response'.status = HTTP_400_BAD_REQUEST
                     /\ favorite' = favorite
           /\ (response'.method = "DELETE" /\ add_delete_recipe_in_favorite(u, r, "DELETE")) =>
                IF favorite[<<u, r>>] > 0
                THEN /\ response'.status = HTTP_204_NO_CONTENT
                     /\ favorite' = [favorite EXCEPT ![<<u, r>>] = 0]
                ELSE /\ response'.status = HTTP_400_BAD_REQUEST
                     /\ favorite' = favorite]_vars

\* A second POST for a favorite pair was answered 400 and the pair is stored.
C1_Witness ==
    /\ response.action = "favorite"
    /\ response.method = "POST"
    /\ response.status = HTTP_400_BAD_REQUEST
    /\ \E p \in RecipePairs : favorite[p] = 1

\* C2: for an authenticated user u and an existing recipe r, whatever requests
\* came before, POST /recipes/{r}/shopping_cart/ answers 201 and adds (u, r)
\* to the cart when it is absent and 400 when it is present; DELETE answers 204
\* and removes (u, r) when it is present and 400 when it is absent.
C2_ShoppingCartContract ==
    [][response'.action = "shopping_cart" =>
       \A u \in Users, r \in RecipeIds :
         recipes[r] # None =>
           /\ (response'.method = "POST" /\ add_delete_recipe_for_shopping_list(u, r, "POST")) =>
                IF shopping_list[<<u, r>>] = 0
                THEN /\ response'.status = HTTP_201_CREATED
                     /\ shopping_list' = [shopping_list EXCEPT ![<<u, r>>] = 1]
                ELSE /\ response'.status = HTTP_400_BAD_REQUEST
                     /\ shopping_list' = shopping_list
           /\ (response'.method = "DELETE" /\ add_delete_recipe_for_shopping_list(u, r, "DELETE")) =>
                IF shopping_list[<<u, r>>] > 0
                THEN /\ response'.status = HTTP_204_NO_CONTENT
                     /\ shopping_list' = [shopping_list EXCEPT ![<<u, r>>] = 0]
                ELSE /\ response'.status = HTTP_400_BAD_REQUEST
                     /\ shopping_list' = shopping_list]_vars

\* A DELETE for a pair that is not in the cart was answered 400 while the cart
\* holds another pair.
C2_Witness ==
    /\ response.action = "shopping_cart"
    /\ response.method = "DELETE"
    /\ response.status = HTTP_400_BAD_REQUEST
    /\ \E p \in RecipePairs : shopping_list[p] = 1

\* C3: for an authenticated user u and an existing user a other than u,
\* POST /users/{a}/subscribe/ answers 400 when the follow pair (u, a) exists
\* and otherwise stores it and answers 201; DELETE answers 400 when the pair
\* does not exist and otherwise removes it and answers 204.
C3_SubscribeContract ==
    [][response'.action = "subscribe" =>
       \A u \in Users, a \in Users :
         a # u =>
           /\ (response'.method = "POST" /\ subscribe(u, a, "POST")) =>
                IF follow[<<u, a>>] > 0
                THEN /\ response'.status = HTTP_400_BAD_REQUEST
                     /\ follow' = follow
                ELSE /\ response'.status = HTTP_201_CREATED
                     /\ follow' = [follow EXCEPT ![<<u, a>>] = 1]
           /\ (response'.method = "DELETE" /\ subscribe(u, a, "DELETE")) =>
                IF follow[<<u, a>>] = 0
                THEN /\ response'.status = HTTP_400_BAD_REQUEST
                     /\ follow' = follow
                ELSE /\ response'.status = HTTP_204_NO_CONTENT
                     /\ follow' = [follow EXCEPT ![<<u, a>>] = 0]]_vars

\* A subscribe POST was answered 201 while the author already follows the
\* follower: the pair is ordered.
C3_Witness ==
    /\ response.action = "subscribe"
    /\ response.method = "POST"
    /\ response.status = HTTP_201_CREATED
    /\ \E u \in Users, a \in Users : u # a /\ follow[<<u, a>>] = 1 /\ follow[<<a, u>>] = 1

\* C4: a subscribe POST whose requesting user is the target author is always
\* answered 400 and stores no row, and in every reachable state no follow row
\* has its follower equal to its author.
C4_SelfFollowRejected ==
    /\ [](\A u \in Users : follow[<<u, u>>] = 0)
    /\ [][\A u \in Users :
            (response'.action = "subscribe" /\ subscribe(u, u, "POST")) =>
                response'.status = HTTP_400_BAD_REQUEST /\ follow' = follow]_vars

\* A subscribe POST was answered 400 while no follow row is stored: the
\* request named its own user.
C4_Witness ==
    /\ response.action = "subscribe"
    /\ response.method = "POST"
    /\ response.status = HTTP_400_BAD_REQUEST
    /\ follow = EmptyTable(UserPairs)

\* C5: in every state that requests processed one at a time reach, each
\* relation holds at most one row per ordered pair: one favorite row per
\* (user, recipe), one cart row per (user, recipe), one follow row per
\* (follower, author).
C5_OneRowPerPair ==
    /\ \A p \in RecipePairs : favorite[p] <= 1
    /\ \A p \in RecipePairs : shopping_list[p] <= 1
    /\ \A p \in UserPairs : follow[p] <= 1

\* An add request for a stored pair was turned down while a favorite row and a
\* cart row are stored.
C5_Witness ==
    /\ response.method = "POST"
    /\ response.status = HTTP_400_BAD_REQUEST
    /\ \E p \in RecipePairs : favorite[p] = 1
    /\ \E p \in RecipePairs : shopping_list[p] = 1

\* The answers 201 given to the add requests of one kind for one pair.
Created(action, user, pk) ==
    {a \in answered : /\ a.action = action /\ a.user = user /\ a.pk = pk
                      /\ a.status = HTTP_201_CREATED}

\* C6: when add requests for the same pair interleave so that each passes the
\* exists() query before any of them writes, the storage layer's constraint
\* still keeps the rows unique: at most one row is ever stored for the pair
\* and at most one of the requests is answered 201.
C6_RaceKeepsOneRow ==
    /\ \A u \in Users, r \in RecipeIds : favorite[<<u, r>>] <= 1 /\ shopping_list[<<u, r>>] <= 1
    /\ \A u \in Users, a \in Users : follow[<<u, a>>] <= 1
    /\ \A u \in Users, r \in RecipeIds :
           /\ Cardinality(Created("favorite", u, r)) <= 1
           /\ Cardinality(Created("shopping_cart", u, r)) <= 1
    /\ \A u \in Users, a \in Users : Cardinality(Created("subscribe", u, a)) <= 1

\* Two add requests for the same pair both passed the exists() query; one was
\* answered 201, the other met the constraint, and one row is stored.
C6_Witness ==
    \E a \in answered, b \in answered :
        /\ a.action = "favorite" /\ b.action = "favorite"
        /\ a.user = b.user /\ a.pk = b.pk
        /\ a.status = HTTP_201_CREATED
        /\ b.status = HTTP_500_INTERNAL_SERVER_ERROR
        /\ favorite[<<a.user, a.pk>>] = 1

\* C7: get-link is idempotent: two calls of GET /recipes/{id}/get-link/ for
\* the same recipe, whatever requests other than the recipe's deletion come
\* between them, return the same token.
C7_GetLinkIdempotent ==
    \A r \in RecipeIds : Len(issued[r]) = 2 => issued[r][1] = issued[r][2]

\* get-link answered a recipe twice, and another recipe was created and given
\* its token after the first answer was taken.
C7_Witness ==
    \E r \in RecipeIds, r2 \in RecipeIds :
        /\ Len(issued[r]) = 2
        /\ r2 # r
        /\ short_link[r2] # None
        /\ issued[r2] = <<>>

C9_TokensUnique ==
    \A r1 \in RecipeIds, r2 \in RecipeIds :
        (r1 # r2 /\ short_link[r1] # None /\ short_link[r2] # None)
            => short_link[r1] # short_link[r2]

\* Every token of the token space is held, each by one recipe.
C9_Witness ==
    /\ Saturated
    /\ Cardinality({r \in RecipeIds : short_link[r] # None}) = NTokens

\* C10: the allocation loop has no cap on its turns: while every token of the
\* token space is assigned, an allocation never completes and never answers
\* with an error; while a token is unused, the allocation ends when the random
\* draw is fair.
C10_NoRetryCap ==
    /\ [][(alloc # None /\ Saturated) => (alloc' = alloc /\ response' = response)]_vars
    /\ (alloc # None /\ ~Saturated) ~> (alloc = None)

\* A creation is in the allocation loop while every token is assigned.
C10_Witness == alloc # None /\ Saturated

\* The ingredients that the recipes of a user's cart use.
CartIngredients(user) ==
    {row[2] : row \in {x \in recipe_ingredients : Exists(shopping_list, user, x[1])}}

\* The sum of the amounts of a set of ingredient rows.
RECURSIVE SumAmounts(_)
SumAmounts(rows) ==
    IF rows = {} THEN 0
    ELSE LET row == CHOOSE x \in rows : TRUE IN row[3] + SumAmounts(rows \ {row})

\* The amount of an ingredient over the recipes of a user's cart.
CartAmount(user, ingredient) ==
    SumAmounts({row \in recipe_ingredients :
                   row[2] = ingredient /\ Exists(shopping_list, user, row[1])})

\* The rows of a downloaded file that are an entry of an ingredient.
Entries(file, ingredient) ==
    {k \in DOMAIN file.rows :
        /\ "Ingredient" \in DOMAIN file.rows[k]
        /\ file.rows[k].Ingredient = ingredient}

\* The file of a download that was answered 200.
Downloaded ==
    response.action = "download_shopping_cart" /\ response.status = HTTP_200_OK

\* C11: the downloaded shopping list has, for every ingredient that a recipe
\* of the requesting user's cart uses, exactly one entry, and the entry's
\* amount is the sum of the ingredient's amounts over the recipes of the cart.
C11_DownloadSums ==
    [][\A u \in Users :
         (response'.action = "download_shopping_cart" /\ download_csv(u)) =>
             \A i \in CartIngredients(u) :
                 /\ Cardinality(Entries(response'.body, i)) = 1
                 /\ \A k \in Entries(response'.body, i) :
                        response'.body.rows[k].Amount = CartAmount(u, i)]_vars

\* A user whose cart holds two recipes that share an ingredient downloaded
\* the shopping list.
C11_Case ==
    /\ Downloaded
    /\ \E u \in Users, r1, r2 \in RecipeIds, i \in Ingredients :
          /\ r1 # r2
          /\ Len(response.body.rows) = 2
          /\ response.body.rows[1].User = u
          /\ Exists(shopping_list, u, r1) /\ Exists(shopping_list, u, r2)
          /\ \E a1, a2 \in Amounts :
                <<r1, i, a1>> \in recipe_ingredients /\ <<r2, i, a2>> \in recipe_ingredients

\* The position of an ingredient's name in the alphabet of the names.
NamePosition(ingredient) == CHOOSE k \in DOMAIN IngredientNames : IngredientNames[k] = ingredient

\* C12: the downloaded shopping list is ordered: its entries are entries of
\* ingredients in the alphabetical order of the ingredients' names, so that
\* the same cart gives the same sequence whatever the order of the adds.
C12_DownloadOrdered ==
    [][\A u \in Users :
         (response'.action = "download_shopping_cart" /\ download_csv(u)) =>
             LET rows == response'.body.rows
             IN  /\ \A k \in DOMAIN rows : "Ingredient" \in DOMAIN rows[k]
                 /\ \A k \in DOMAIN rows, l \in DOMAIN rows :
                        k < l => NamePosition(rows[k].Ingredient)
                                     < NamePosition(rows[l].Ingredient)]_vars

\* The same cart was downloaded with its second recipe in the first row.
C12_Case ==
    /\ Downloaded
    /\ Len(response.body.rows) = 2
    /\ response.body.rows[1].Recipe > response.body.rows[2].Recipe
\* A table's rows all refer to stored recipes.
Referring(tbl) == \A p \in DOMAIN tbl : tbl[p] > 0 => recipes[p[2]] # None

\* No row of the four tables refers to recipe pk.
NoRowOf(pk) ==
    /\ \A row \in recipe_ingredients \cup recipe_tags : row[1] # pk
    /\ \A u \in Users : favorite[<<u, pk>>] = 0 /\ shopping_list[<<u, pk>>] = 0

\* C13: a deleted recipe leaves no orphan: in every reachable state every
\* ingredient link, tag link, favorite row and cart row refers to a stored
\* recipe, and right after a deletion no row refers to the deleted recipe.
C13_NoOrphans ==
    /\ [](/\ \A row \in recipe_ingredients \cup recipe_tags : recipes[row[1]] # None
          /\ Referring(favorite)
          /\ Referring(shopping_list))
    /\ [][\A u \in Users, pk \in RecipeIds :
            (response'.status = HTTP_204_NO_CONTENT /\ destroy(u, pk)) =>
                (recipes'[pk] = None /\ NoRowOf(pk)')]_vars

\* A recipe was deleted while another recipe keeps its links, a favorite row
\* and a cart row.
C13_Witness ==
    /\ response.action = "recipe"
    /\ response.status = HTTP_204_NO_CONTENT
    /\ \E pk \in RecipeIds, r \in RecipeIds :
          /\ recipes[pk] = None /\ NoRowOf(pk)
          /\ recipes[r] # None
          /\ \E row \in recipe_ingredients : row[1] = r
          /\ \E u \in Users : favorite[<<u, r>>] = 1
          /\ \E u \in Users : shopping_list[<<u, r>>] = 1
\* The step is a write of recipe pk that user u requests: a PUT, a PATCH or
\* a DELETE.
WriteBy(u, pk) ==
    \/ /\ response'.action = "update"
       /\ \E data \in Payloads : update(u, pk, data)
    \/ /\ response'.action = "partial_update"
       /\ \E data \in Payloads : partial_update(u, pk, data)
    \/ /\ response'.action = "recipe"
       /\ destroy(u, pk)

\* C14: an update (PUT or PATCH) or a deletion of a stored recipe that an
\* authenticated user other than the recipe's author requests is answered 403
\* and leaves the recipe and its links unchanged.
C14_NonAuthorForbidden ==
    [][\A u \in Users, pk \in RecipeIds :
         (recipes[pk] # None /\ recipes[pk] # u /\ WriteBy(u, pk)) =>
             /\ response'.status = HTTP_403_FORBIDDEN
             /\ UNCHANGED <<recipes, recipe_ingredients, recipe_tags>>]_vars

\* A PATCH of a stored recipe was answered 403 and the recipe has its links.
C14_Witness ==
    /\ response.action = "partial_update"
    /\ response.status = HTTP_403_FORBIDDEN
    /\ \E pk \in RecipeIds :
          /\ recipes[pk] # None
          /\ \E row \in recipe_ingredients : row[1] = pk
          /\ \E row \in recipe_tags : row[1] = pk
\* The step is a toggle request of user u: favorite, shopping cart or subscribe.
ToggleBy(u) ==
    \/ /\ response'.action = "favorite"
       /\ \E pk \in RecipeIds, method \in Methods : add_delete_recipe_in_favorite(u, pk, method)
    \/ /\ response'.action = "shopping_cart"
       /\ \E pk \in RecipeIds, method \in Methods :
              add_delete_recipe_for_shopping_list(u, pk, method)
    \/ /\ response'.action = "subscribe"
       /\ \E pk \in UserIds, method \in Methods : subscribe(u, pk, method)

\* The rows of a table whose acting user is v are the same after the step.
RowsKept(tbl, next, v) == \A p \in DOMAIN tbl : p[1] = v => next[p] = tbl[p]

\* The step only adds rows to a table or only removes rows from it: no row
\* becomes another row.
AddedOrRemoved(tbl, next) ==
    \/ \A p \in DOMAIN tbl : next[p] >= tbl[p]
    \/ \A p \in DOMAIN tbl : next[p] <= tbl[p]

\* C15: a favorite, shopping-cart or subscribe request of user u creates and
\* deletes no row whose acting user is another user v, and no request changes
\* a toggle row in place: a step only adds rows to a table or only removes
\* rows from it.
C15_OwnRowsOnly ==
    [][/\ \A u \in Users : ToggleBy(u) =>
            \A v \in Users \ {u} :
                /\ RowsKept(favorite, favorite', v)
                /\ RowsKept(shopping_list, shopping_list', v)
                /\ RowsKept(follow, follow', v)
       /\ AddedOrRemoved(favorite, favorite')
       /\ AddedOrRemoved(shopping_list, shopping_list')
       /\ AddedOrRemoved(follow, follow')]_vars

\* A user added a recipe to the favorites that is a favorite of another
\* user: the two rows are the favorites.
C15_Witness ==
    /\ response.action = "favorite"
    /\ response.method = "POST"
    /\ response.status = HTTP_201_CREATED
    /\ Count(favorite) = 2
    /\ \E u \in Users, v \in Users, r \in RecipeIds :
          u # v /\ favorite[<<u, r>>] = 1 /\ favorite[<<v, r>>] = 1
\* The recipes that carry a tag of the set.
Tagged(tags) == {r \in RecipeIds : \E t \in tags : <<r, t>> \in recipe_tags}

\* C16: a list request that names a set of tag slugs returns exactly the
\* recipes that carry a tag whose slug is in the set, each of them once: with
\* the tags alone these are all the stored recipes that carry one, and with
\* other parameters they are those of the list without the tags. (A request
\* that carries a tags parameter names at least one slug.)
C16_TagsUnion ==
    [][response'.action = "list" =>
         LET user == response'.body.user
             query == response'.body.query
         IN  (query.tags # {} /\ list(user, query)) =>
             LET results == response'.body.results
                 untagged == get_queryset(user, [query EXCEPT !.tags = {}])
             IN  /\ \A r \in RecipeIds :
                        results[r] = IF r \in Tagged(query.tags) /\ untagged[r] > 0
                                     THEN 1 ELSE 0
                 /\ (query = [is_favorited |-> Absent, is_in_shopping_cart |-> Absent,
                              author |-> None, tags |-> query.tags]) =>
                        \A r \in RecipeIds :
                            results[r] = IF recipes[r] # None /\ r \in Tagged(query.tags)
                                         THEN 1 ELSE 0]_vars

\* A list that named the two tags was answered with a recipe that carries
\* both, once, and with a recipe that carries one of them.
C16_Witness ==
    /\ response.action = "list"
    /\ response.body.query.tags = {"dinner", "lunch"}
    /\ \E r \in RecipeIds :
          /\ {<<r, "dinner">>, <<r, "lunch">>} \subseteq recipe_tags
          /\ response.body.results[r] = 1
    /\ \E r \in RecipeIds :
          /\ <<r, "lunch">> \in recipe_tags /\ <<r, "dinner">> \notin recipe_tags
          /\ response.body.results[r] = 1

\* C17: for an unauthenticated request is_favorited and is_in_shopping_cart
\* do nothing: whatever their values, the list is the list of the same request
\* without the two parameters.
C17_AnonymousFlags ==
    [][(response'.action = "list" /\ list(Anonymous, response'.body.query)) =>
           response'.body.results =
               get_queryset(Anonymous, [response'.body.query EXCEPT
                                           !.is_favorited = Absent,
                                           !.is_in_shopping_cart = Absent])]_vars

\* An unauthenticated list with is_favorited=1 and is_in_shopping_cart=1 was
\* answered with every stored recipe while users hold favorites and carts.
C17_Witness ==
    /\ response.action = "list"
    /\ response.body.user = Anonymous
    /\ response.body.query.is_favorited = "1"
    /\ response.body.query.is_in_shopping_cart = "1"
    /\ response.body.query.tags = {}
    /\ response.body.query.author = None
    /\ \A r \in RecipeIds : recipes[r] # None => response.body.results[r] = 1
    /\ Count(favorite) > 0
    /\ Count(shopping_list) > 0
\* The step is a request of user u to a user-scoped action.
ScopedBy(u) ==
    \/ /\ response'.action = "favorite"
       /\ \E pk \in RecipeIds, method \in Methods : add_delete_recipe_in_favorite(u, pk, method)
    \/ /\ response'.action = "shopping_cart"
       /\ \E pk \in RecipeIds, method \in Methods :
              add_delete_recipe_for_shopping_list(u, pk, method)
    \/ /\ response'.action = "subscribe"
       /\ \E pk \in UserIds, method \in Methods : subscribe(u, pk, method)
    \/ /\ response'.action = "subscriptions"
       /\ subscriptions(u)
    \/ /\ response'.action = "download_shopping_cart"
       /\ download_csv(u)
    \/ /\ response'.action = "me"
       /\ profile_user(u)

\* C18: an unauthenticated request to a user-scoped action (favorite,
\* shopping_cart, subscribe, subscriptions, download_shopping_cart, users/me)
\* is answered 401 and changes no stored row.
C18_AnonymousUnauthorized ==
    [][ScopedBy(Anonymous) => (response'.status = HTTP_401_UNAUTHORIZED /\ UNCHANGED db)]_vars

\* The download of the shopping list was answered with a server error.
C18_Case ==
    /\ response.action = "download_shopping_cart"
    /\ response.status = HTTP_500_INTERNAL_SERVER_ERROR

\* The step is a request of user u that names recipe pk: favorite, shopping
\* cart or get-link (which reads no requester).
NamingRecipe(u, pk) ==
    \/ /\ response'.action = "favorite"
       /\ \E method \in Methods : add_delete_recipe_in_favorite(u, pk, method)
    \/ /\ response'.action = "shopping_cart"
       /\ \E method \in Methods : add_delete_recipe_for_shopping_list(u, pk, method)
    \/ /\ response'.action = "get-link"
       /\ get_short_link_recipe(pk)

\* The step is a subscribe request of user u that names user pk.
NamingUser(u, pk) ==
    /\ response'.action = "subscribe"
    /\ \E method \in Methods : subscribe(u, pk, method)

\* The requests of the requesters that name an id of nothing are answered 404
\* and change no row.
NotFoundFor(requesters) ==
    /\ \A u \in requesters, pk \in RecipeIds :
          (recipes[pk] = None /\ NamingRecipe(u, pk)) =>
              (response'.status = HTTP_404_NOT_FOUND /\ UNCHANGED db)
    /\ \A u \in requesters, pk \in UserIds \ Users :
          NamingUser(u, pk) => (response'.status = HTTP_404_NOT_FOUND /\ UNCHANGED db)

\* C19, as stated: a favorite, shopping_cart or get-link request that names a
\* recipe id that does not exist, and a subscribe request that names a user id
\* that does not exist, is answered 404 and creates or deletes no row,
\* whoever asks.
C19_NotFound == [][NotFoundFor(Users \cup {Anonymous})]_vars

\* C19, amended: a favorite, shopping_cart or subscribe request of an
\* authenticated user and a get-link request that name an id that does not
\* exist are answered 404 and create or delete no row. (An unauthenticated
\* favorite, shopping_cart or subscribe request is answered 401 before the id
\* is looked up.)
C19_NotFoundAuthenticated ==
    [][/\ NotFoundFor(Users)
       /\ \A pk \in RecipeIds :
             (recipes[pk] = None /\ response'.action = "get-link" /\ get_short_link_recipe(pk)) =>
                 (response'.status = HTTP_404_NOT_FOUND /\ UNCHANGED db)]_vars

\* A DELETE of a favorite that names the key of no recipe was answered 404
\* while the favorites hold a row.
C19_Witness ==
    /\ response.action = "favorite"
    /\ response.method = "DELETE"
    /\ response.status = HTTP_404_NOT_FOUND
    /\ Count(favorite) > 0
    /\ \E pk \in RecipeIds : recipes[pk] = None
\* The ingredient list or the tag list of the request is missing, empty or
\* names an ingredient or a tag twice.
BadLists(data) ==
    \/ ~data.has_ingredients \/ data.ingredients = <<>>
    \/ Repeated(IngredientIds(data.ingredients))
    \/ ~data.has_tags \/ data.tags = <<>>
    \/ Repeated(data.tags)

\* The requests that carry bad lists.
BadPayloads == {data \in Payloads : BadLists(data)}

\* The create and update requests of the requesters (the updates for the
\* recipes chosen by updated) that carry bad lists are answered 400, store
\* no recipe and leave the recipes and their links unchanged.
BadListsRejected(requesters, updated(_, _)) ==
    /\ (response = NoResponse /\ (response'.action = "create" \/ alloc' # None)) =>
          \A data \in BadPayloads, u \in requesters :
              create(u, data) =>
                  /\ response'.status = HTTP_400_BAD_REQUEST
                  /\ UNCHANGED <<recipes, recipe_seq, recipe_ingredients, recipe_tags, alloc>>
    /\ response'.action \in {"update", "partial_update"} =>
          \A u \in requesters, pk \in RecipeIds :
              updated(u, pk) =>
                  \/ /\ response'.status = HTTP_400_BAD_REQUEST
                     /\ UNCHANGED <<recipes, recipe_seq, recipe_ingredients, recipe_tags>>
                  \/ \A data \in BadPayloads :
                         ~(update(u, pk, data) \/ partial_update(u, pk, data))

\* The recipe is stored.
Stored(u, pk) == recipes[pk] # None

\* The recipe is stored and the user is its author.
Authored(u, pk) == recipes[pk] # None /\ recipes[pk] = u

\* C20, as stated: a create request, or an update request for a stored
\* recipe, whose ingredient list or tag list is missing, empty or contains a
\* repeat is answered 400, stores no recipe and leaves the stored recipe and
\* its links unchanged, whoever asks.
C20_BadListsRejected == [][BadListsRejected(Users \cup {Anonymous}, Stored)]_vars

\* C20, amended: a create request of an authenticated user, or an update
\* request (PUT or PATCH) of a recipe's author, whose ingredient list or tag
\* list is missing, empty or contains a repeat is answered 400, stores no
\* recipe and leaves the stored recipe and its links unchanged. (Other
\* requesters are answered 401 or 403 before the lists are read.)
C20_BadListsRejectedForAuthor == [][BadListsRejected(Users, Authored)]_vars

\* A PUT of a recipe was answered 400 after another recipe was created, and
\* the recipes have their links.
C20_Witness ==
    /\ response.action = "update"
    /\ response.status = HTTP_400_BAD_REQUEST
    /\ recipe_seq = NRecipes
    /\ \A pk \in RecipeIds :
          recipes[pk] # None =>
              /\ \E row \in recipe_ingredients : row[1] = pk
              /\ \E row \in recipe_tags : row[1] = pk
    /\ \E pk \in RecipeIds : recipes[pk] # None
\* The amounts of the request's ingredients are all at least 1.
AmountsPositive(data) ==
    \A k \in DOMAIN data.ingredients : data.ingredients[k].amount >= 1

\* The step is a create request of user u or an update request (PUT or PATCH)
\* of user u for recipe pk, with the data.
WriteOf(u, pk, data) ==
    \/ response = NoResponse /\ create(u, data)
    \/ response'.action = "update" /\ update(u, pk, data)
    \/ response'.action = "partial_update" /\ partial_update(u, pk, data)

\* C21: amounts below 1 are rejected: a create request of an authenticated
\* user or an update request of a recipe's author that holds an ingredient
\* with amount < 1 is answered 400, a request whose amounts are all >= 1
\* (its lists being valid) is not answered 400, and in every reachable state
\* every ingredient link has amount >= 1. (The requesters are those that C20
\* leaves: the others are answered 401 or 403.)
C21_AmountsPositive ==
    /\ [](\A row \in recipe_ingredients : row[3] >= 1)
    /\ [][\A u \in Users, pk \in RecipeIds :
            recipes[pk] = u =>
                \A data \in Payloads \ BadPayloads :
                    WriteOf(u, pk, data) =>
                        IF AmountsPositive(data)
                        THEN response'.status # HTTP_400_BAD_REQUEST
                        ELSE response'.status = HTTP_400_BAD_REQUEST]_vars

\* A PUT was answered 400 while every stored link has a positive amount.
C21_Case ==
    /\ response.action = "update"
    /\ response.status = HTTP_400_BAD_REQUEST
    /\ recipe_ingredients # {}
    /\ \A row \in recipe_ingredients : row[3] >= 1
\* The step is an update request (PUT or PATCH) of user u for recipe pk with
\* the data.
UpdateOf(u, pk, data) ==
    \/ response'.action = "update" /\ update(u, pk, data)
    \/ response'.action = "partial_update" /\ partial_update(u, pk, data)

\* The ingredient links and the tag links of recipe pk in the next state.
IngredientLinks(pk) == {row \in recipe_ingredients' : row[1] = pk}
TagLinks(pk) == {row \in recipe_tags' : row[1] = pk}

\* C22: a successful update replaces the recipe's links: after an update
\* request (PUT or PATCH) answered 200, the recipe's ingredient links
\* (ingredient and amount) are exactly those of the request and its tags are
\* exactly those of the request, no link from before is left, and there is
\* at most one link for each ingredient of the recipe.
C22_UpdateReplacesLinks ==
    [][response'.status = HTTP_200_OK =>
          \A pk \in RecipeIds, u \in Users, data \in Payloads :
              UpdateOf(u, pk, data) =>
                  /\ IngredientLinks(pk) =
                         {<<pk, data.ingredients[k].id, data.ingredients[k].amount>> :
                              k \in DOMAIN data.ingredients}
                  /\ TagLinks(pk) = {<<pk, data.tags[k]>> : k \in DOMAIN data.tags}
                  /\ \A r1, r2 \in IngredientLinks(pk) : r1[2] = r2[2] => r1 = r2]_vars

\* An update was answered 200 and the recipe, stored with flour 1 and salt 2
\* under the tag lunch, has the one ingredient link flour 2 and the tag
\* dinner only.
C22_Witness ==
    /\ response.action \in {"update", "partial_update"}
    /\ response.status = HTTP_200_OK
    /\ {row \in recipe_ingredients : row[1] = 1} = {<<1, "flour", 2>>}
    /\ {row \in recipe_tags : row[1] = 1} = {<<1, "dinner">>}
\* The actions that add and remove a favorite, a shopping-cart row, a follow.
ToggleActions == {"favorite", "shopping_cart", "subscribe"}

\* C23: a favorite, shopping-cart or subscribe request that is answered 400,
\* 401 or 404 leaves the favorite, shopping-cart and follow relations as
\* they were before the request.
C23_ErrorsWriteNothing ==
    [][(/\ response'.action \in ToggleActions
        /\ response'.status \in {HTTP_400_BAD_REQUEST, HTTP_401_UNAUTHORIZED,
                                  HTTP_404_NOT_FOUND})
           => UNCHANGED <<favorite, shopping_list, follow>>]_vars

\* A DELETE of a shopping-cart row that the user does not have was answered
\* 400 while another user has the recipe in the cart and rows of the other
\* relations are stored.
C23_Witness ==
    /\ response.action = "shopping_cart"
    /\ response.method = "DELETE"
    /\ response.status = HTTP_400_BAD_REQUEST
    /\ Count(shopping_list) > 0
    /\ Count(favorite) + Count(follow) > 0
\* The step is a POST of user u on target pk answered 201 by the action.
Added(action) ==
    /\ response'.action = action
    /\ response'.method = "POST"
    /\ response'.status = HTTP_201_CREATED

\* C24: add followed by remove is a round trip: for each of favorite,
\* shopping cart and follow, a POST of a user on a target answered 201 starts
\* from a state without the pair and leaves the two other relations
\* unchanged, and the DELETE of the same user on the same target that
\* follows it at once (the view's DELETE branch in the state after the POST)
\* is answered 204 and leaves the relation as it was before the POST; a
\* DELETE answered 204 changes no other relation.
C24_AddRemoveRoundTrip ==
    [][/\ Added("favorite") =>
            \A u \in Users, pk \in RecipeIds :
                add_delete_recipe_in_favorite(u, pk, "POST") =>
                    /\ ~Exists(favorite, u, pk)
                    /\ UNCHANGED <<shopping_list, follow>>
                    /\ favorite_precheck(u, pk, "DELETE")' = None
                    /\ favorite_written(u, pk, "DELETE")' =
                           [rows |-> favorite, status |-> HTTP_204_NO_CONTENT]
       /\ Added("shopping_cart") =>
            \A u \in Users, pk \in RecipeIds :
                add_delete_recipe_for_shopping_list(u, pk, "POST") =>
                    /\ ~Exists(shopping_list, u, pk)
                    /\ UNCHANGED <<favorite, follow>>
                    /\ shopping_cart_precheck(u, pk, "DELETE")' = None
                    /\ shopping_cart_written(u, pk, "DELETE")' =
                           [rows |-> shopping_list, status |-> HTTP_204_NO_CONTENT]
       /\ Added("subscribe") =>
            \A u \in Users, pk \in UserIds :
                subscribe(u, pk, "POST") =>
                    /\ ~Exists(follow, u, pk)
                    /\ UNCHANGED <<favorite, shopping_list>>
                    /\ subscribe_precheck(u, pk, "DELETE")' = None
                    /\ subscribe_written(u, pk, "DELETE")' =
                           [rows |-> follow, status |-> HTTP_204_NO_CONTENT]
       /\ (response'.method = "DELETE" /\ response'.status = HTTP_204_NO_CONTENT) =>
            /\ response'.action = "favorite" => UNCHANGED <<shopping_list, follow>>
            /\ response'.action = "shopping_cart" => UNCHANGED <<favorite, follow>>
            /\ response'.action = "subscribe" => UNCHANGED <<favorite, shopping_list>>]_vars

\* The DELETE of a round trip was answered 204 and the shopping cart of
\* another user still holds its row.
C24_Witness ==
    /\ response.action = "shopping_cart"
    /\ response.method = "DELETE"
    /\ response.status = HTTP_204_NO_CONTENT
    /\ Count(shopping_list) = 1
\* C25: a recipe's author is the user who created it and never changes: a
\* create request that stores a recipe stores it with the requesting user
\* as its author, whatever the request names as author, and no step, hence
\* no update request, changes the author of a recipe that exists.
C25_AuthorFixed ==
    [][/\ recipe_seq' # recipe_seq =>
            \A u \in Users, data \in Payloads :
                create(u, data) => recipes'[recipe_seq + 1] = u
       /\ \A pk \in RecipeIds :
            (recipes[pk] # None /\ recipes'[pk] # None) => recipes'[pk] = recipes[pk]]_vars

\* An update was answered 200 while a recipe that user 2 created is stored
\* beside the recipe of user 1.
C25_Witness ==
    /\ response.action \in {"update", "partial_update"}
    /\ response.status = HTTP_200_OK
    /\ recipes[1] = 1
    /\ recipes[NRecipes] = 2
\* The list `results` holds, once each, the recipes of the list `unfiltered`
\* for which the user's row in the table is there (value 1) or is not there
\* (value 0), and no other recipe.
Selected(results, unfiltered, tbl, u, value) ==
    \A r \in RecipeIds :
        results[r] = IF unfiltered[r] > 0 /\ (Exists(tbl, u, r) <=> value = "1") THEN 1 ELSE 0

\* C26: for an authenticated user u, the is_favorited and is_in_shopping_cart
\* filters partition the recipes: the list of a request with value 1 holds
\* exactly the recipes of the unfiltered list (the list of the same request
\* without the parameter) for which u has a favorite (respectively cart)
\* row, the list with value 0 holds exactly those for which u has none, each
\* recipe at most once; so the two lists together are the unfiltered list,
\* which for a request without other parameters holds every recipe.
C26_FlagsPartition ==
    [][response'.action = "list" =>
          LET u == response'.body.user
              query == response'.body.query
              results == response'.body.results
          IN  u \in Users =>
                  /\ query.is_favorited \in {"0", "1"} =>
                         Selected(results,
                                  get_queryset(u, [query EXCEPT !.is_favorited = Absent]),
                                  favorite, u, query.is_favorited)
                  /\ query.is_in_shopping_cart \in {"0", "1"} =>
                         Selected(results,
                                  get_queryset(u, [query EXCEPT !.is_in_shopping_cart = Absent]),
                                  shopping_list, u, query.is_in_shopping_cart)
                  /\ (/\ query.is_favorited = Absent
                      /\ query.is_in_shopping_cart = Absent
                      /\ query.author = None
                      /\ query.tags = {}) => results = all]_vars

\* The list of the recipes that are not in the cart was sent to a user who
\* has a recipe in the cart and another recipe not in it: the list holds the
\* second and not the first.
C26_Witness ==
    /\ response.action = "list"
    /\ response.body.user \in Users
    /\ response.body.query.is_in_shopping_cart = "0"
    /\ response.body.query.is_favorited = Absent
    /\ response.body.query.author = None
    /\ response.body.query.tags = {}
    /\ \E r1, r2 \in RecipeIds :
           /\ Exists(shopping_list, response.body.user, r1)
           /\ response.body.results[r1] = 0
           /\ response.body.results[r2] = 1
====
